---- MODULE Spec2Model ----
(***************************************************************************)
(* Model of notebooks/ch-demos/piday-code.ipynb: estimating pi with        *)
(* quantum phase estimation.  The notebook authors two gate-placement      *)
(* helpers (qft_dagger, qpe_pre), a job runner (run_job), the function     *)
(* get_pi_estimate and a driver loop over qubit counts.                    *)
(***************************************************************************)
EXTENDS Integers, Sequences, FiniteSets, TLC

VARIABLES
    fn_n,        \* post-processing alone: the qubit count
    fn_counts,   \* post-processing alone: the counts mapping handed in
    fn_out,      \* post-processing alone: its outcome, or Pending
    g_n,         \* gate helpers alone: the n_qubits argument
    g_called,    \* gate helpers alone: the helper that has been called
    g_a0, g_b0,  \* gate helpers alone: two circuits before the call
    g_a, g_b,    \* gate helpers alone: the same two circuits after it
    nqs,             \* notebook global: the qubit counts to try
    pi_estimates,    \* notebook global: the estimates appended so far
    simulator,       \* notebook global: the backend handle
    stdout,          \* the lines the driver loop has written
    plotted,         \* what the plot cell has drawn
    pc,              \* the statement the notebook is at
    it,              \* driver loop: how many elements of nqs were taken
    nq,              \* driver loop: the loop variable
    thisnq_pi_estimate,  \* driver loop: the value the call returned
    n_qubits,        \* get_pi_estimate: its parameter
    circ,            \* get_pi_estimate: the circuit under construction
    counts,          \* get_pi_estimate: the mapping run_job returned
    max_counts_result,   \* get_pi_estimate: the key, then its integer
    theta,           \* get_pi_estimate: the phase
    t_circ,          \* run_job: the transpiled circuit
    qobj,            \* run_job: the assembled job description
    job,             \* run_job: the job handle (an index into jobs)
    jobs,            \* backend: the jobs accepted, each [n, status]
    result,          \* backend: the counts of the job that finished
    err,             \* the exception that ended the notebook, or "none"
    noiseless        \* backend: whether measurements are noiseless

estVars == <<fn_n, fn_counts, fn_out>>
gateVars == <<g_n, g_called, g_a0, g_b0, g_a, g_b>>
globalVars == <<nqs, pi_estimates, simulator, stdout, plotted>>
loopVars == <<it, nq, thisnq_pi_estimate>>
callVars == <<n_qubits, circ, counts, max_counts_result, theta>>
runVars == <<t_circ, qobj, job>>
backendVars == <<jobs, result, noiseless>>
drvVars == <<nqs, pi_estimates, simulator, stdout, plotted, pc, it, nq,
             thisnq_pi_estimate, n_qubits, circ, counts, max_counts_result,
             theta, t_circ, qobj, job, jobs, result, err, noiseless>>
vars == <<fn_n, fn_counts, fn_out, g_n, g_called, g_a0, g_b0, g_a, g_b,
          nqs, pi_estimates, simulator, stdout, plotted, pc, it, nq,
          thisnq_pi_estimate, n_qubits, circ, counts, max_counts_result,
          theta, t_circ, qobj, job, jobs, result, err, noiseless>>

(***************************************************************************)
(* Bounds of the model.                                                    *)
(***************************************************************************)
\* largest qubit count the post-processing function is applied to
MaxEstN == 12
\* largest number of distinct bit-strings in a counts mapping
MaxKeys == 2
\* largest qubit count for which mappings of several bit-strings are drawn
MaxMultiN == 3
\* largest n_qubits the gate helpers are called with on their own
MaxGateN == 5
\* largest qubit count the driver loop reaches when the backend may return
\* any counts mapping (under noiseless measurements it runs all of nqs)
MaxNq == 4

(***************************************************************************)
(* Program constants.                                                      *)
(***************************************************************************)
\* shots=10000 in the call of run_job
Shots == 10000
\* shots=1000, the default of run_job's parameter
DefaultShots == 1000
\* nqs = list(range(2,12+1))
NqFirst == 2
NqLast == 12
\* significand width of a Python float (IEEE-754 binary64)
MantBits == 53

(***************************************************************************)
(* Small integer helpers.                                                  *)
(***************************************************************************)
\* 2**k for a natural k
Pow2(k) == 2 ^ k

\* the number of binary digits less one of v >= 1: floor(log2(v))
FloorLog2(v) == CHOOSE e \in 0..29 : Pow2(e) <= v /\ v \div 2 < Pow2(e)

\* the binary digits of v, most significant first, on exactly w places
IntToBits(v, w) == [i \in 1..w |-> (v \div Pow2(w - i)) % 2]

RECURSIVE BitsToInt(_)
\* the natural number a bit sequence (most significant first) writes
BitsToInt(b) ==
    IF b = <<>> THEN 0
    ELSE CHOOSE v \in {2 * BitsToInt(SubSeq(c, 1, Len(c) - 1)) + c[Len(c)] :
                          c \in {b}} : TRUE

(***************************************************************************)
(* Python floats.  A positive double is [s |-> bits, e |-> exponent]: s is *)
(* the significand, most significant bit first, s[1] = 1, without trailing *)
(* zeros and at most MantBits long; its value is                           *)
(*    SUM_i s[i] * 2^(e - i + 1).                                          *)
(* Zero is the double 0.0.  Only non-negative values occur.  The integers  *)
(* divided here are below 2^14, so every product below fits TLC's          *)
(* integers.                                                               *)
(***************************************************************************)
Zero == [s |-> <<>>, e |-> 0]

\* a bit sequence holding a 1, without its trailing zeros
StripZeros(b) ==
    LET last == CHOOSE i \in 1..Len(b) :
                    b[i] = 1 /\ \A j \in (i + 1)..Len(b) : b[j] = 0
    IN  SubSeq(b, 1, last)

\* a bit sequence plus one unit in its last place; when every bit is 1 the
\* carry leaves the first place and the result is the empty sequence
IncBits(b) ==
    LET zeros == {i \in 1..Len(b) : b[i] = 0}
        z     == CHOOSE i \in zeros : \A j \in zeros : j <= i
    IN  IF zeros = {} THEN <<>>
        ELSE [i \in 1..Len(b) |-> IF i < z THEN b[i] ELSE IF i = z THEN 1 ELSE 0]

RECURSIVE ExpandBits(_, _, _)
\* the next k bits of the binary expansion of r / q, for 0 <= r < q,
\* thirteen bits of long division at a time
ExpandBits(r, q, k) ==
    IF k <= 0 THEN <<>>
    ELSE LET w == IF k < 13 THEN k ELSE 13
         IN  CHOOSE b \in {IntToBits(v \div q, w) \o ExpandBits(v % q, q, k - w) :
                              v \in {r * Pow2(w)}} : TRUE

RECURSIVE ExpandRem(_, _, _)
\* the remainder left after those k bits
ExpandRem(r, q, k) ==
    IF k <= 0 THEN r
    ELSE LET w == IF k < 13 THEN k ELSE 13
         IN  CHOOSE x \in {ExpandRem(v % q, q, k - w) : v \in {r * Pow2(w)}} : TRUE

\* the least k >= 0 with p * 2^k >= q
ScaleUp(p, q) ==
    LET c == (q + p - 1) \div p
    IN  CHOOSE k \in 0..29 : Pow2(k) >= c /\ (k = 0 \/ Pow2(k - 1) < c)

\* the double nearest to p / q (round half to even), for integers p, q > 0:
\* the correctly rounded quotient IEEE-754 division returns
RoundRatio(p, q) ==
    LET Nearest(a, b) ==
            LET down == ScaleUp(a, b)
                P0   == a * Pow2(down)
                I    == P0 \div b
                up   == FloorLog2(I)
                rem  == ExpandRem(P0 % b, b, MantBits - up - 1)
                Rounded(T) ==
                    IF 2 * rem > b \/ (2 * rem = b /\ T[MantBits] = 1)
                    THEN IncBits(T) ELSE T
                Packed(R) ==
                    IF R = <<>>
                    THEN [s |-> <<1>>, e |-> up - down + 1]
                    ELSE [s |-> StripZeros(R), e |-> up - down]
                \* the first MantBits bits of the quotient
                Ts == {IntToBits(I, up + 1)
                          \o ExpandBits(P0 % b, b, MantBits - up - 1)}
            IN  CHOOSE f \in {Packed(R) : R \in {Rounded(T) : T \in Ts}} : TRUE
    \* the operands and the intermediate sequences are evaluated once
    IN  CHOOSE f \in {Nearest(a, b) : a \in {p}, b \in {q}} : TRUE

\* a / b for Python ints a >= 0, b > 0 (true division: correctly rounded)
IntTrueDiv(a, b) == IF a = 0 THEN Zero ELSE RoundRatio(a, b)

\* k * x for the int k = 2 and a float x: scaling by two is exact
FloatTimes2(x) == IF x = Zero THEN Zero ELSE [x EXCEPT !.e = @ + 1]

\* 1. / x for a float x > 0 whose significand fits a machine integer:
\* x = I * 2^t with I = BitsToInt(x.s), t = x.e - Len(x.s) + 1
FloatRecip(x) ==
    LET I == BitsToInt(x.s)
        t == x.e - Len(x.s) + 1
    IN  IF t >= 0 THEN RoundRatio(1, I * Pow2(t))
        ELSE RoundRatio(Pow2(-t), I)

(***************************************************************************)
(* Circuits.  A QuantumCircuit is [nq, nc, data, err]: its numbers of      *)
(* qubits and classical bits, the instructions appended so far, and        *)
(* whether an appending call has raised (an instruction naming a qubit or  *)
(* bit the circuit does not have, or the same qubit twice, raises          *)
(* CircuitError and appends nothing; the exception ends the caller).       *)
(* An instruction is [g, angle, q, c]: gate kind, angle, qubit indices and *)
(* classical-bit indices.                                                  *)
(***************************************************************************)
NoAngle == [num |-> "none", den |-> 1]

\* the angle -np.pi/float(2**k)
NegPiOver(k) == [num |-> "-pi", den |-> Pow2(k)]

\* the angle 1 (radian)
OneRadian == [num |-> "1", den |-> 1]

\* QuantumCircuit(qubits, clbits)
QuantumCircuit(qubits, clbits) ==
    [nq |-> qubits, nc |-> clbits, data |-> <<>>, err |-> FALSE]

\* the instruction ins is one the circuit accepts
ValidIns(circ_, ins) ==
    /\ \A i \in 1..Len(ins.q) : ins.q[i] >= 0 /\ ins.q[i] < circ_.nq
    /\ \A i \in 1..Len(ins.c) : ins.c[i] >= 0 /\ ins.c[i] < circ_.nc
    /\ \A i, j \in 1..Len(ins.q) : i # j => ins.q[i] # ins.q[j]

\* appending one instruction
Emit(circ_, ins) ==
    IF circ_.err THEN circ_
    ELSE IF ValidIns(circ_, ins) THEN [circ_ EXCEPT !.data = Append(@, ins)]
    ELSE [circ_ EXCEPT !.err = TRUE]

\* appending a sequence of instructions one after the other: all of them,
\* or those before the first one that raises
EmitAll(circ_, inss) ==
    LET InOrder(c, s) ==
            LET bad == {i \in 1..Len(s) : ~ValidIns(c, s[i])}
                k   == CHOOSE i \in bad : \A j \in bad : i <= j
            IN  IF c.err THEN c
                ELSE IF bad = {} THEN [c EXCEPT !.data = @ \o s]
                ELSE [c EXCEPT !.data = @ \o SubSeq(s, 1, k - 1), !.err = TRUE]
    \* the circuit and the instructions are evaluated once
    IN  CHOOSE r \in {InOrder(c, s) : c \in {circ_}, s \in {inss}} : TRUE

\* one broadcast call such as circ.h(range(n)): the arguments are resolved
\* before anything is appended, so it appends all its instructions or none
EmitBroadcast(circ_, inss) ==
    IF circ_.err THEN circ_
    ELSE IF \A i \in 1..Len(inss) : ValidIns(circ_, inss[i])
         THEN [circ_ EXCEPT !.data = @ \o inss]
    ELSE [circ_ EXCEPT !.err = TRUE]

Swap(a, b) == [g |-> "swap", angle |-> NoAngle, q |-> <<a, b>>, c |-> <<>>]
CP(angle, ctl, tgt) == [g |-> "cp", angle |-> angle, q |-> <<ctl, tgt>>, c |-> <<>>]
H(a) == [g |-> "h", angle |-> NoAngle, q |-> <<a>>, c |-> <<>>]
X(a) == [g |-> "x", angle |-> NoAngle, q |-> <<a>>, c |-> <<>>]
Measure(a, b) == [g |-> "measure", angle |-> NoAngle, q |-> <<a>>, c |-> <<b>>]
\* circ.barrier(): one instruction over every qubit of the circuit
Barrier(circ_) ==
    [g |-> "barrier", angle |-> NoAngle,
     q |-> [i \in 1..circ_.nq |-> i - 1], c |-> <<>>]

(***************************************************************************)
(* qft_dagger(circ_, n_qubits)                                             *)
(***************************************************************************)
\* mutant: the partner of a swap is n_qubits-qubit, one place too far
QftSwaps_OffByOne(n) ==
    [i \in 1..(n \div 2) |-> Swap(i - 1, n - (i - 1))]

\* mutant: the loop runs over range(n_qubits), so every pair is swapped twice
QftSwaps_AllQubits(n) ==
    [i \in 1..n |-> Swap(i - 1, n - (i - 1) - 1)]

\* for qubit in range(int(n_qubits/2)): circ_.swap(qubit, n_qubits-qubit-1)
QftSwaps(n) ==
    [i \in 1..(n \div 2) |-> Swap(i - 1, n - (i - 1) - 1)]

\* mutant: the exponent of the angle is one too small, 2**(j-m-1)
QftPhases_ExponentOff(j) ==
    [i \in 1..j |-> CP(NegPiOver(j - (i - 1) - 1), i - 1, j)]

\* for m in range(j): circ_.cp(-np.pi/float(2**(j-m)), m, j)
QftPhases(j) == [i \in 1..j |-> CP(NegPiOver(j - (i - 1)), i - 1, j)]

RECURSIVE QftRows(_, _)
\* for j in range(from, n_qubits): the controlled phases of j, then circ_.h(j)
QftRows(j, n) ==
    IF j >= n THEN <<>>
    ELSE QftPhases(j) \o <<H(j)>> \o QftRows(j + 1, n)

\* mutant: the qubit count is taken from the circuit, not from the argument
qft_dagger_ByCircuitSize(circ_, n) ==
    EmitAll(circ_, QftSwaps(circ_.nq - 1) \o QftRows(0, circ_.nq - 1))

qft_dagger(circ_, n) ==
    EmitAll(circ_, QftSwaps(n) \o QftRows(0, n))

(***************************************************************************)
(* qpe_pre(circ_, n_qubits)                                                *)
(***************************************************************************)
\* circ_.h(range(n_qubits)): one Hadamard per qubit, ascending
QpeHadamards(n) == [i \in 1..n |-> H(i - 1)]

\* mutant: the repetition count is not reversed, 2**x
QpePhases_NotReversed(x, n) ==
    [i \in 1..Pow2(x) |-> CP(OneRadian, n - 1 - x, n)]

\* for _ in range(2**(n_qubits-1-x)): circ_.cp(1, n_qubits-1-x, n_qubits)
QpePhases(x, n) ==
    [i \in 1..Pow2(n - 1 - x) |-> CP(OneRadian, n - 1 - x, n)]

RECURSIVE QpeRows(_, _)
\* for x in reversed(range(n_qubits)), from x downwards
QpeRows(x, n) ==
    IF x < 0 THEN <<>>
    ELSE QpePhases(x, n) \o QpeRows(x - 1, n)

qpe_pre(circ_, n) ==
    EmitAll(Emit(EmitBroadcast(circ_, QpeHadamards(n)), X(n)),
            QpeRows(n - 1, n))

(***************************************************************************)
(* Counts mappings.  job.result().get_counts() is a dict from bit-string   *)
(* to the number of shots that measured it; a dict iterates in insertion   *)
(* order, so a mapping is a sequence of [key, n] entries with distinct     *)
(* keys.  A bit-string is a sequence of the characters "0" and "1",        *)
(* leftmost first.                                                         *)
(***************************************************************************)
RECURSIVE MaxFrom_Least(_, _, _)
\* mutant: the comparison is reversed, so the scan keeps the least count
MaxFrom_Least(cs, i, best) ==
    IF i > Len(cs) THEN best
    ELSE IF cs[i].n < cs[best].n THEN MaxFrom_Least(cs, i + 1, i)
    ELSE MaxFrom_Least(cs, i + 1, best)

RECURSIVE MaxFrom(_, _, _)
\* max(counts, key=counts.get) scanning from entry i with the best entry so
\* far: a later entry replaces it only when its count is strictly greater
MaxFrom(cs, i, best) ==
    IF i > Len(cs) THEN best
    ELSE IF cs[i].n > cs[best].n THEN MaxFrom(cs, i + 1, i)
    ELSE MaxFrom(cs, i + 1, best)

\* max(counts, key=counts.get): the first key, in iteration order, of
\* greatest count (counts non-empty)
MaxCountsKey(cs) == cs[MaxFrom(cs, 2, 1)].key

RECURSIVE IntBase2_LeastFirst(_)
\* mutant: the string is read with its leftmost character least significant
IntBase2_LeastFirst(str) ==
    IF str = <<>> THEN 0
    ELSE 2 * IntBase2_LeastFirst(Tail(str)) + (IF Head(str) = "1" THEN 1 ELSE 0)

RECURSIVE IntBase2(_)
\* int(s, 2) for a string of binary digits
IntBase2(str) ==
    IF str = <<>> THEN 0
    ELSE 2 * IntBase2(SubSeq(str, 1, Len(str) - 1))
         + (IF str[Len(str)] = "1" THEN 1 ELSE 0)

\* mutant: the denominator is fixed at 2**12 instead of 2**n_qubits
Theta_FixedDenominator(m, n) == IntTrueDiv(m, Pow2(NqLast))

\* theta = max_counts_result / 2**n_qubits
Theta(m, n) == IntTrueDiv(m, Pow2(n))

\* mutant: the factor 2 is missing, 1./theta
TwoTheta_NoFactor(th) == th

\* the denominator 2*theta of the returned expression
TwoTheta(th) == FloatTimes2(th)

\* the post-processing of get_pi_estimate: from the counts to the returned
\* value 1./(2*theta), or the ZeroDivisionError Python raises for 1./0.0
PiEstimate(cs, n) ==
    LET key   == MaxCountsKey(cs)
        m     == IntBase2(key)
        th == Theta(m, n)
        den   == TwoTheta(th)
    IN  IF den = Zero
        THEN [key |-> key, m |-> m, theta |-> th,
              raised |-> "ZeroDivisionError", val |-> Zero]
        ELSE [key |-> key, m |-> m, theta |-> th,
              raised |-> "none", val |-> FloatRecip(den)]

(***************************************************************************)
(* The inputs the post-processing is checked on.                           *)
(***************************************************************************)
RECURSIVE BitString(_, _)
\* the n-character bit-string of the integer m, 0 <= m < 2^n
BitString(m, n) ==
    IF n = 0 THEN <<>>
    ELSE BitString(m \div 2, n - 1) \o <<IF m % 2 = 1 THEN "1" ELSE "0">>

\* the shot numbers a bit-string is drawn with, out of `shots`
CountChoices(shots) == {1, shots \div 4, shots \div 2, shots - shots \div 4,
                        shots - 2, shots - 1, shots}

RECURSIVE SeqSum(_)
SeqSum(q) == IF q = <<>> THEN 0 ELSE q[1] + SeqSum(Tail(q))

\* the ways to split `shots` over k bit-strings
Splits(k, shots) ==
    {q \in [1..k -> CountChoices(shots)] : SeqSum(q) = shots}

\* the mappings of exactly k distinct n-bit strings, of the integers in M,
\* whose counts sum to shots
CountsOver(M, n, k, shots) ==
    {[i \in 1..k |-> [key |-> BitString(ms[i], n), n |-> sp[i]]] :
        ms \in {f \in [1..k -> M] : \A i, j \in 1..k : i # j => f[i] # f[j]},
        sp \in Splits(k, shots)}

CountsOfSize(n, k, shots) == CountsOver(0..(Pow2(n) - 1), n, k, shots)

\* every single-string mapping, and for small n every mapping of up to
\* MaxKeys strings
CountsInputs(n) ==
    UNION {CountsOfSize(n, k, Shots) :
             k \in {j \in 1..MaxKeys : j = 1 \/ n <= MaxMultiN}}

(***************************************************************************)
(* The backend.  Aer's qasm_simulator is outside the notebook: it accepts  *)
(* a job, and later the job ends DONE with a counts mapping or ends ERROR. *)
(* A counts mapping has keys as long as the job has classical bits and     *)
(* counts that sum to the job's shots.  Under noiseless measurements the   *)
(* most frequent bit-string of an n-qubit run is the integer nearest to    *)
(* 2^n / (2 pi).                                                           *)
(***************************************************************************)
\* 333/106 < pi < 355/113
PiLo == <<333, 106>>
PiHi == <<355, 113>>

\* the integer m nearest to 2^n / (2 pi): (2m - 1) pi < 2^n < (2m + 1) pi
NearestM(n) ==
    CHOOSE m \in 0..Pow2(n) :
        /\ (2 * m - 1) * PiHi[1] < Pow2(n) * PiHi[2]
        /\ Pow2(n) * PiLo[2] < (2 * m + 1) * PiLo[1]

\* the integers whose bit-strings a job of n classical bits is seen to
\* measure: all zeros, the noiseless value, all ones
MeasuredInts(n) == {0, NearestM(n), Pow2(n) - 1}

\* the key of integer m is strictly the most frequent of the mapping cs
StrictlyMostFrequent(cs, key) ==
    \E i \in 1..Len(cs) :
        /\ cs[i].key = key
        /\ \A j \in 1..Len(cs) : j # i => cs[j].n < cs[i].n

\* the counts mappings a finished job of nc classical bits and `shots` shots
\* may hold
BackendCounts(nc, shots, nl) ==
    LET all == UNION {CountsOver(MeasuredInts(nc), nc, k, shots) :
                        k \in 1..MaxKeys}
    IN  IF nl
        THEN {cs \in all : StrictlyMostFrequent(cs, BitString(NearestM(nc), nc))}
        ELSE all

(***************************************************************************)
(* The notebook: the driver loop, get_pi_estimate and run_job, one action  *)
(* per statement.                                                          *)
(***************************************************************************)
NoCircuit == QuantumCircuit(0, 0)
NoQobj == [nq |-> 0, nc |-> 0, shots |-> 0, size |-> 0]
Unset == [kind |-> "unset", str |-> <<>>, int |-> 0]

\* list(range(a, b + 1))
RangeList(a, b) == [i \in 1..(b - a + 1) |-> a + i - 1]

\* circ = QuantumCircuit(n_qubits + 1, n_qubits)
NewCircuit(n) == QuantumCircuit(n + 1, n)

\* circ.measure(range(n_qubits), range(n_qubits))
Measurements(n) == [i \in 1..n |-> Measure(i - 1, i - 1)]

\* mutant: the call leaves shots to run_job's default
CallShots_Default == DefaultShots

\* the shots argument of run_job(circ, backend=simulator, shots=10000, ...)
CallShots == Shots

\* qobj = assemble(t_circ, shots=shots)
Assemble(tc, shots) ==
    [nq |-> tc.nq, nc |-> tc.nc, shots |-> shots, size |-> Len(tc.data)]

\* mutant: run_job goes on to the counts without waiting for the job
NextStmt_NoWait(stmt) ==
    CASE stmt = "new_circuit" -> "qpe_pre"
      [] stmt = "qpe_pre"     -> "barrier1"
      [] stmt = "barrier1"    -> "qft_dagger"
      [] stmt = "qft_dagger"  -> "barrier2"
      [] stmt = "barrier2"    -> "measure"
      [] stmt = "measure"     -> "transpile"
      [] stmt = "transpile"   -> "assemble"
      [] stmt = "assemble"    -> "run"
      [] stmt = "run"         -> "max"
      [] stmt = "monitor"     -> "result"
      [] stmt = "result"      -> "max"
      [] stmt = "max"         -> "int"
      [] stmt = "int"         -> "theta"
      [] stmt = "theta"       -> "return"
      [] stmt = "return"      -> "append"
      [] stmt = "append"      -> "show"
      [] stmt = "show"        -> "for"

\* mutant: qft_dagger is called before qpe_pre
NextStmt_QftFirst(stmt) ==
    CASE stmt = "new_circuit" -> "qft_dagger"
      [] stmt = "qft_dagger"  -> "barrier1"
      [] stmt = "barrier1"    -> "qpe_pre"
      [] stmt = "qpe_pre"     -> "barrier2"
      [] stmt = "barrier2"    -> "measure"
      [] stmt = "measure"     -> "transpile"
      [] stmt = "transpile"   -> "assemble"
      [] stmt = "assemble"    -> "run"
      [] stmt = "run"         -> "monitor"
      [] stmt = "monitor"     -> "result"
      [] stmt = "result"      -> "max"
      [] stmt = "max"         -> "int"
      [] stmt = "int"         -> "theta"
      [] stmt = "theta"       -> "return"
      [] stmt = "return"      -> "append"
      [] stmt = "append"      -> "show"
      [] stmt = "show"        -> "for"

\* the statement after each statement of get_pi_estimate and run_job that
\* neither branches nor returns to the loop
NextStmt(stmt) ==
    CASE stmt = "new_circuit" -> "qpe_pre"
      [] stmt = "qpe_pre"     -> "barrier1"
      [] stmt = "barrier1"    -> "qft_dagger"
      [] stmt = "qft_dagger"  -> "barrier2"
      [] stmt = "barrier2"    -> "measure"
      [] stmt = "measure"     -> "transpile"
      [] stmt = "transpile"   -> "assemble"
      [] stmt = "assemble"    -> "run"
      [] stmt = "run"         -> "monitor"
      [] stmt = "monitor"     -> "result"
      [] stmt = "result"      -> "max"
      [] stmt = "max"         -> "int"
      [] stmt = "int"         -> "theta"
      [] stmt = "theta"       -> "return"
      [] stmt = "return"      -> "append"
      [] stmt = "append"      -> "show"
      [] stmt = "show"        -> "for"

\* the estimates in the recorded output of the driver cell, as written:
\* 2.0, 4.0, 2.6666666666666665, 3.2, 3.2, 3.2, 3.1219512195121952,
\* 3.1604938271604937, 3.1411042944785277 (three times)
RecordedOutput ==
    << [int |-> 2, frac |-> <<0>>],
       [int |-> 4, frac |-> <<0>>],
       [int |-> 2, frac |-> <<6,6,6,6,6,6,6,6,6,6,6,6,6,6,6,5>>],
       [int |-> 3, frac |-> <<2>>],
       [int |-> 3, frac |-> <<2>>],
       [int |-> 3, frac |-> <<2>>],
       [int |-> 3, frac |-> <<1,2,1,9,5,1,2,1,9,5,1,2,1,9,5,2>>],
       [int |-> 3, frac |-> <<1,6,0,4,9,3,8,2,7,1,6,0,4,9,3,7>>],
       [int |-> 3, frac |-> <<1,4,1,1,0,4,2,9,4,4,7,8,5,2,7,7>>],
       [int |-> 3, frac |-> <<1,4,1,1,0,4,2,9,4,4,7,8,5,2,7,7>>],
       [int |-> 3, frac |-> <<1,4,1,1,0,4,2,9,4,4,7,8,5,2,7,7>>] >>

\* the variables of the notebook before the driver cell runs
DrvStart(list, nl) ==
    /\ nqs = list
    /\ pi_estimates = <<>>
    /\ simulator = "qasm_simulator"
    /\ stdout = <<>>
    /\ plotted = <<>>
    /\ pc = "for"
    /\ it = 0
    /\ nq = 0
    /\ thisnq_pi_estimate = Zero
    /\ n_qubits = 0
    /\ circ = NoCircuit
    /\ counts = <<>>
    /\ max_counts_result = Unset
    /\ theta = Zero
    /\ t_circ = NoCircuit
    /\ qobj = NoQobj
    /\ job = 0
    /\ jobs = <<>>
    /\ result = <<>>
    /\ err = "none"
    /\ noiseless = nl

\* the variables of the notebook in the specifications of single functions
DrvIdle == DrvStart(<<>>, FALSE)

Pending == [raised |-> "pending"]

\* the variables of the gate helpers' own specification, at rest
GateIdle ==
    /\ g_n = 0
    /\ g_called = "none"
    /\ g_a0 = QuantumCircuit(1, 0)
    /\ g_b0 = QuantumCircuit(1, 0)
    /\ g_a = QuantumCircuit(1, 0)
    /\ g_b = QuantumCircuit(1, 0)

\* the variables of the post-processing's own specification, at rest
EstIdle ==
    /\ fn_n = 0
    /\ fn_counts = <<>>
    /\ fn_out = Pending

InitEst ==
    /\ fn_n \in 1..MaxEstN
    /\ fn_counts \in CountsInputs(fn_n)
    /\ fn_out = Pending
    /\ GateIdle
    /\ DrvIdle

\* get_pi_estimate's post-processing returns a value
EstReturn ==
    /\ fn_out = Pending
    /\ PiEstimate(fn_counts, fn_n).raised = "none"
    /\ fn_out' = PiEstimate(fn_counts, fn_n)
    /\ UNCHANGED <<fn_n, fn_counts>>
    /\ UNCHANGED <<gateVars, drvVars>>

\* get_pi_estimate's post-processing raises
EstRaise ==
    /\ fn_out = Pending
    /\ PiEstimate(fn_counts, fn_n).raised # "none"
    /\ fn_out' = PiEstimate(fn_counts, fn_n)
    /\ UNCHANGED <<fn_n, fn_counts>>
    /\ UNCHANGED <<gateVars, drvVars>>

NextEst == EstReturn \/ EstRaise

SpecEst == InitEst /\ [][NextEst]_vars

(***************************************************************************)
(* The gate helpers on their own: each is called with the same n_qubits on *)
(* two circuits that hold the qubits 0..n_qubits and differ in size and in *)
(* what was appended to them before.                                       *)
(***************************************************************************)
\* what a circuit of nq qubits may hold before the call
PriorData(qubits, n) ==
    { <<>>,
      <<H(0)>>,
      <<X(n), Barrier(QuantumCircuit(qubits, n))>>,
      <<H(0), CP(OneRadian, 0, n), Measure(0, 0)>> }

PriorCircuits(n) ==
    {[nq |-> qubits, nc |-> n, data |-> d, err |-> FALSE] :
        qubits \in {n + 1, n + 2}, d \in PriorData(n + 1, n)}

InitGates ==
    /\ g_n \in 1..MaxGateN
    /\ g_called = "none"
    /\ g_a0 \in PriorCircuits(g_n)
    /\ g_b0 \in PriorCircuits(g_n)
    /\ g_a0 # g_b0
    /\ g_a = g_a0
    /\ g_b = g_b0
    /\ EstIdle
    /\ DrvIdle

\* qft_dagger(circ, n) called on each of the two circuits
CallQftDagger ==
    /\ g_called = "none"
    /\ g_called' = "qft_dagger"
    /\ g_a' = qft_dagger(g_a, g_n)
    /\ g_b' = qft_dagger(g_b, g_n)
    /\ UNCHANGED <<g_n, g_a0, g_b0>>
    /\ UNCHANGED <<estVars, drvVars>>

\* qpe_pre(circ, n) called on each of the two circuits
CallQpePre ==
    /\ g_called = "none"
    /\ g_called' = "qpe_pre"
    /\ g_a' = qpe_pre(g_a, g_n)
    /\ g_b' = qpe_pre(g_b, g_n)
    /\ UNCHANGED <<g_n, g_a0, g_b0>>
    /\ UNCHANGED <<estVars, drvVars>>

NextGates == CallQftDagger \/ CallQpePre

SpecGates == InitGates /\ [][NextGates]_vars

(***************************************************************************)
(* The driver cell.                                                        *)
(***************************************************************************)
\* for nq in nqs: the next element, and the call get_pi_estimate(nq)
ForNext ==
    /\ pc = "for"
    /\ it < Len(nqs)
    /\ it' = it + 1
    /\ nq' = nqs[it + 1]
    /\ n_qubits' = nqs[it + 1]
    /\ pc' = "new_circuit"
    /\ UNCHANGED <<globalVars, thisnq_pi_estimate, circ, counts,
                   max_counts_result, theta, runVars, backendVars, err>>
    /\ UNCHANGED <<estVars, gateVars>>

\* for nq in nqs: the list is exhausted, the cell ends
ForExit ==
    /\ pc = "for"
    /\ it = Len(nqs)
    /\ pc' = "plot"
    /\ UNCHANGED <<globalVars, loopVars, callVars, runVars, backendVars, err>>
    /\ UNCHANGED <<estVars, gateVars>>

\* the statements of get_pi_estimate that build the circuit; a call that
\* raises CircuitError ends the notebook
BuildStep(stmt, built) ==
    /\ pc = stmt
    /\ circ' = built
    /\ IF built.err
       THEN pc' = "raised" /\ err' = "sdk"
       ELSE pc' = NextStmt(stmt) /\ err' = err
    /\ UNCHANGED <<globalVars, loopVars, n_qubits, counts, max_counts_result,
                   theta, runVars, backendVars>>
    /\ UNCHANGED <<estVars, gateVars>>

CreateCircuit == BuildStep("new_circuit", NewCircuit(n_qubits))
CallQpePreStmt == BuildStep("qpe_pre", qpe_pre(circ, n_qubits))
FirstBarrier == BuildStep("barrier1", Emit(circ, Barrier(circ)))
CallQftDaggerStmt == BuildStep("qft_dagger", qft_dagger(circ, n_qubits))
SecondBarrier == BuildStep("barrier2", Emit(circ, Barrier(circ)))
MeasureAll == BuildStep("measure", EmitBroadcast(circ, Measurements(n_qubits)))

(***************************************************************************)
(* run_job(circ, backend=simulator, shots=10000, optimization_level=0)     *)
(***************************************************************************)
\* t_circ = transpile(circ, backend, optimization_level=optimization_level)
Transpile ==
    /\ pc = "transpile"
    /\ t_circ' = circ
    /\ pc' = NextStmt("transpile")
    /\ UNCHANGED <<globalVars, loopVars, callVars, qobj, job, backendVars, err>>
    /\ UNCHANGED <<estVars, gateVars>>

\* qobj = assemble(t_circ, shots=shots)
AssembleQobj ==
    /\ pc = "assemble"
    /\ qobj' = Assemble(t_circ, CallShots)
    /\ pc' = NextStmt("assemble")
    /\ UNCHANGED <<globalVars, loopVars, callVars, t_circ, job, backendVars, err>>
    /\ UNCHANGED <<estVars, gateVars>>

\* job = backend.run(qobj): the backend accepts a new job
BackendRun ==
    /\ pc = "run"
    /\ jobs' = Append(jobs, [nc |-> qobj.nc, shots |-> qobj.shots,
                             status |-> "RUNNING"])
    /\ job' = Len(jobs) + 1
    /\ pc' = NextStmt("run")
    /\ UNCHANGED <<globalVars, loopVars, callVars, t_circ, qobj, result,
                   noiseless, err>>
    /\ UNCHANGED <<estVars, gateVars>>

\* transpile, assemble or backend.run raises: the notebook catches nothing
SdkRaises ==
    /\ pc \in {"transpile", "assemble", "run"}
    /\ pc' = "raised"
    /\ err' = "sdk"
    /\ UNCHANGED <<globalVars, loopVars, callVars, runVars, backendVars>>
    /\ UNCHANGED <<estVars, gateVars>>

\* the backend finishes a running job with a counts mapping
BackendFinish ==
    /\ \E j \in 1..Len(jobs) :
          /\ jobs[j].status = "RUNNING"
          /\ jobs' = [jobs EXCEPT ![j].status = "DONE"]
          /\ result' \in BackendCounts(jobs[j].nc, jobs[j].shots, noiseless)
    /\ UNCHANGED <<globalVars, pc, loopVars, callVars, runVars, noiseless, err>>
    /\ UNCHANGED <<estVars, gateVars>>

\* the backend ends a running job in error
BackendFail ==
    /\ \E j \in 1..Len(jobs) :
          /\ jobs[j].status = "RUNNING"
          /\ jobs' = [jobs EXCEPT ![j].status = "ERROR"]
    /\ UNCHANGED <<globalVars, pc, loopVars, callVars, runVars, result,
                   noiseless, err>>
    /\ UNCHANGED <<estVars, gateVars>>

\* job_monitor(job): returns once the job is in a final state
JobMonitor ==
    /\ pc = "monitor"
    /\ jobs[job].status \in {"DONE", "ERROR"}
    /\ pc' = NextStmt("monitor")
    /\ UNCHANGED <<globalVars, loopVars, callVars, runVars, backendVars, err>>
    /\ UNCHANGED <<estVars, gateVars>>

\* return job.result().get_counts(): run_job returns the counts to
\* get_pi_estimate, or the SDK raises for a job that ended in error
JobResult ==
    /\ pc = "result"
    /\ jobs[job].status \in {"DONE", "ERROR"}
    /\ IF jobs[job].status = "DONE"
       THEN /\ counts' = result
            /\ t_circ' = NoCircuit
            /\ qobj' = NoQobj
            /\ job' = 0
            /\ result' = <<>>
            /\ pc' = NextStmt("result")
            /\ err' = err
       ELSE /\ pc' = "raised"
            /\ err' = "sdk"
            /\ UNCHANGED <<counts, runVars, result>>
    /\ UNCHANGED <<globalVars, loopVars, n_qubits, circ, max_counts_result,
                   theta, jobs, noiseless>>
    /\ UNCHANGED <<estVars, gateVars>>

(***************************************************************************)
(* get_pi_estimate: the post-processing.                                   *)
(***************************************************************************)
\* max_counts_result = max(counts, key=counts.get); max() of an empty
\* mapping raises ValueError
SelectMax ==
    /\ pc = "max"
    /\ IF counts = <<>>
       THEN /\ pc' = "raised"
            /\ err' = "ValueError"
            /\ UNCHANGED max_counts_result
       ELSE /\ max_counts_result' =
                  [kind |-> "str", str |-> MaxCountsKey(counts), int |-> 0]
            /\ pc' = NextStmt("max")
            /\ err' = err
    /\ UNCHANGED <<globalVars, loopVars, n_qubits, circ, counts, theta,
                   runVars, backendVars>>
    /\ UNCHANGED <<estVars, gateVars>>

\* max_counts_result = int(max_counts_result, 2)
ParseInt ==
    /\ pc = "int"
    /\ max_counts_result' =
          [kind |-> "int", str |-> <<>>, int |-> IntBase2(max_counts_result.str)]
    /\ pc' = NextStmt("int")
    /\ UNCHANGED <<globalVars, loopVars, n_qubits, circ, counts, theta,
                   runVars, backendVars, err>>
    /\ UNCHANGED <<estVars, gateVars>>

\* theta = max_counts_result/2**n_qubits
ComputeTheta ==
    /\ pc = "theta"
    /\ theta' = Theta(max_counts_result.int, n_qubits)
    /\ pc' = NextStmt("theta")
    /\ UNCHANGED <<globalVars, loopVars, n_qubits, circ, counts,
                   max_counts_result, runVars, backendVars, err>>
    /\ UNCHANGED <<estVars, gateVars>>

\* mutant: the function also appends its result to the global pi_estimates
ReturnEstimate_AlsoAppends ==
    /\ pc = "return"
    /\ TwoTheta(theta) # Zero
    /\ thisnq_pi_estimate' = FloatRecip(TwoTheta(theta))
    /\ pi_estimates' = Append(pi_estimates, FloatRecip(TwoTheta(theta)))
    /\ n_qubits' = 0
    /\ circ' = NoCircuit
    /\ counts' = <<>>
    /\ max_counts_result' = Unset
    /\ theta' = Zero
    /\ pc' = NextStmt("return")
    /\ UNCHANGED <<nqs, simulator, stdout, plotted, it, nq, runVars,
                   backendVars, err>>
    /\ UNCHANGED <<estVars, gateVars>>

\* return (1./(2*theta)): the value goes to thisnq_pi_estimate and the
\* locals of the call are gone; 1./0.0 raises ZeroDivisionError
ReturnEstimate ==
    /\ pc = "return"
    /\ IF TwoTheta(theta) = Zero
       THEN /\ pc' = "raised"
            /\ err' = "ZeroDivisionError"
            /\ UNCHANGED <<thisnq_pi_estimate, callVars>>
       ELSE /\ thisnq_pi_estimate' = FloatRecip(TwoTheta(theta))
            /\ n_qubits' = 0
            /\ circ' = NoCircuit
            /\ counts' = <<>>
            /\ max_counts_result' = Unset
            /\ theta' = Zero
            /\ pc' = NextStmt("return")
            /\ err' = err
    /\ UNCHANGED <<globalVars, it, nq, runVars, backendVars>>
    /\ UNCHANGED <<estVars, gateVars>>

\* mutant: the estimate is put in front, pi_estimates.insert(0, ...)
AppendEstimate_Prepends ==
    /\ pc = "append"
    /\ pi_estimates' = <<thisnq_pi_estimate>> \o pi_estimates
    /\ pc' = NextStmt("append")
    /\ UNCHANGED <<nqs, simulator, stdout, plotted, loopVars, callVars,
                   runVars, backendVars, err>>
    /\ UNCHANGED <<estVars, gateVars>>

\* pi_estimates.append(thisnq_pi_estimate)
AppendEstimate ==
    /\ pc = "append"
    /\ pi_estimates' = Append(pi_estimates, thisnq_pi_estimate)
    /\ pc' = NextStmt("append")
    /\ UNCHANGED <<nqs, simulator, stdout, plotted, loopVars, callVars,
                   runVars, backendVars, err>>
    /\ UNCHANGED <<estVars, gateVars>>

\* the line f"{nq} qubits, pi = {thisnq_pi_estimate}" is written
ShowEstimate ==
    /\ pc = "show"
    /\ stdout' = Append(stdout, <<nq, thisnq_pi_estimate>>)
    /\ pc' = NextStmt("show")
    /\ UNCHANGED <<nqs, pi_estimates, simulator, plotted, loopVars, callVars,
                   runVars, backendVars, err>>
    /\ UNCHANGED <<estVars, gateVars>>

\* the plot cell: plotter.plot(nqs, pi_estimates, ...)
PlotResults ==
    /\ pc = "plot"
    /\ plotted' = <<nqs, pi_estimates>>
    /\ pc' = "end"
    /\ UNCHANGED <<nqs, pi_estimates, simulator, stdout, loopVars, callVars,
                   runVars, backendVars, err>>
    /\ UNCHANGED <<estVars, gateVars>>

Next ==
    \/ ForNext \/ ForExit
    \/ CreateCircuit \/ CallQpePreStmt \/ FirstBarrier
    \/ CallQftDaggerStmt \/ SecondBarrier \/ MeasureAll
    \/ Transpile \/ AssembleQobj \/ BackendRun \/ SdkRaises
    \/ BackendFinish \/ BackendFail
    \/ JobMonitor \/ JobResult
    \/ SelectMax \/ ParseInt \/ ComputeTheta \/ ReturnEstimate
    \/ AppendEstimate \/ ShowEstimate \/ PlotResults

\* the backend may return any counts mapping; the loop is followed up to
\* MaxNq qubits
Init ==
    /\ DrvStart(RangeList(NqFirst, IF MaxNq < NqLast THEN MaxNq ELSE NqLast),
                FALSE)
    /\ EstIdle
    /\ GateIdle

Spec == Init /\ [][Next]_vars

\* noiseless measurements; the loop runs over all of nqs
InitNoiseless ==
    /\ DrvStart(RangeList(NqFirst, NqLast), TRUE)
    /\ EstIdle
    /\ GateIdle

SpecNoiseless == InitNoiseless /\ [][Next]_vars

\* the statements of the notebook that the interpreter goes on to execute
\* whenever it can: every statement, without the SDK call that raises
NotebookStep ==
    \/ ForNext \/ ForExit
    \/ CreateCircuit \/ CallQpePreStmt \/ FirstBarrier
    \/ CallQftDaggerStmt \/ SecondBarrier \/ MeasureAll
    \/ Transpile \/ AssembleQobj \/ BackendRun
    \/ JobMonitor \/ JobResult
    \/ SelectMax \/ ParseInt \/ ComputeTheta \/ ReturnEstimate
    \/ AppendEstimate \/ ShowEstimate \/ PlotResults

\* the notebook run to its end: the interpreter never stops between two
\* statements it can execute; nothing is promised about the backend.  The
\* run is either over all of nqs with noiseless measurements, or over nqs up
\* to MaxNq with any measurements
InitRun == Init \/ InitNoiseless

SpecRun == InitRun /\ [][Next]_vars /\ WF_vars(NotebookStep)

(***************************************************************************)
(* Comparing a double with a rational, used to state the claims.           *)
(***************************************************************************)
\* -1, 0, 1 as the bit sequence a is below, equal to, above b (same length)
CmpBits(a, b) ==
    LET diff == {i \in 1..Len(a) : a[i] # b[i]}
        d    == CHOOSE i \in diff : \A j \in diff : i <= j
    IN  IF diff = {} THEN 0 ELSE IF a[d] < b[d] THEN -1 ELSE 1

\* k copies of the bit x
Rep(x, k) == [i \in 1..k |-> x]

\* -1, 0, 1 as the binary number [s, e] (s[1] = 1, any length) is below,
\* equal to, above the rational p / q, for integers p, q > 0
CmpFloatRat(f, p, q) ==
    LET down == ScaleUp(p, q)
        P0   == p * Pow2(down)
        I    == P0 \div q
        up   == FloorLog2(I)
        len  == IF Len(f.s) > up + 1 THEN Len(f.s) ELSE up + 1
        mine == f.s \o Rep(0, len - Len(f.s))
        head == IntToBits(I, up + 1) \o ExpandBits(P0 % q, q, len - up - 1)
        rem  == ExpandRem(P0 % q, q, len - up - 1)
        c    == CmpBits(mine, head)
    IN  IF f.e > up - down THEN 1
        ELSE IF f.e < up - down THEN -1
        ELSE IF c # 0 THEN c
        ELSE IF rem = 0 THEN 0 ELSE -1

\* the double f is exactly the rational p / q
FloatEqRat(f, p, q) == f # Zero /\ CmpFloatRat(f, p, q) = 0

\* a bit sequence (not all zero) minus one unit in its last place
DecBits(b) ==
    LET o == CHOOSE i \in 1..Len(b) :
                 b[i] = 1 /\ \A j \in (i + 1)..Len(b) : b[j] = 0
    IN  [i \in 1..Len(b) |-> IF i < o THEN b[i] ELSE IF i = o THEN 0 ELSE 1]

\* the midpoint between the double f and the next double above it
MidAbove(f) ==
    [s |-> f.s \o Rep(0, MantBits - Len(f.s)) \o <<1>>, e |-> f.e]

\* the midpoint between the double f and the next double below it
MidBelow(f) ==
    IF f.s = <<1>>
    THEN [s |-> Rep(1, MantBits + 1), e |-> f.e - 1]
    ELSE [s |-> DecBits(f.s \o Rep(0, MantBits - Len(f.s))) \o <<1>>,
          e |-> f.e]

\* f is a double and no double is nearer to p / q than f: f is p / q itself
\* or p / q lies strictly between the midpoints around f
IsNearestDouble(f, p, q) ==
    /\ f # Zero
    /\ Len(f.s) <= MantBits
    /\ f.s[1] = 1
    /\ \/ CmpFloatRat(f, p, q) = 0
       \/ /\ CmpFloatRat(MidBelow(f), p, q) < 0
          /\ CmpFloatRat(MidAbove(f), p, q) > 0

\* the unsigned binary value of a bit-string, leftmost character most
\* significant: the sum of 2^(Len - i) over the positions i holding "1"
RECURSIVE SumPow(_, _)
SumPow(S, len) ==
    IF S = {} THEN 0
    ELSE LET i == CHOOSE x \in S : TRUE
         IN  Pow2(len - i) + SumPow(S \ {i}, len)

BinaryValue(str) == SumPow({i \in 1..Len(str) : str[i] = "1"}, Len(str))

IsPowerOfTwo(m) == \E k \in 0..MaxEstN + 1 : m = Pow2(k)

(***************************************************************************)
(* C1.  For every n >= 1 and measured integer m, 1 <= m <= 2^n - 1 (the    *)
(* value of the selected bit-string), get_pi_estimate returns exactly the  *)
(* rational 2^(n-1) / m.                                                   *)
(* As stated this fails: the function computes in Python floats, and       *)
(* 2^(n-1) / m is a double only when m is a power of two.                  *)
(***************************************************************************)
\* C1 as stated: the returned value is exactly the rational 2^(n-1) / m
C1_ExactRational ==
    (fn_out # Pending /\ BinaryValue(fn_out.key) >= 1)
        => /\ fn_out.raised = "none"
           /\ FloatEqRat(fn_out.val, Pow2(fn_n - 1), BinaryValue(fn_out.key))

\* C1 amended: for 1 <= m <= 2^n - 1 get_pi_estimate returns (it does not
\* raise) the double nearest to the rational 2^(n-1) / m, which is that
\* rational itself when m is a power of two
C1_NearestDouble ==
    (fn_out # Pending /\ BinaryValue(fn_out.key) >= 1)
        => LET m == BinaryValue(fn_out.key)
           IN  /\ m <= Pow2(fn_n) - 1
               /\ fn_out.raised = "none"
               /\ IsNearestDouble(fn_out.val, Pow2(fn_n - 1), m)
               /\ IsPowerOfTwo(m)
                     => FloatEqRat(fn_out.val, Pow2(fn_n - 1), m)

\* a call with n = 4, m = 3 has returned a double that is not 8/3
C1_Witness ==
    /\ fn_out # Pending
    /\ fn_n = 4
    /\ BinaryValue(fn_out.key) = 3
    /\ fn_out.raised = "none"
    /\ ~FloatEqRat(fn_out.val, 8, 3)

(***************************************************************************)
(* C2.  Under noiseless measurements, where the most frequent measurement  *)
(* for n qubits is the integer m_n nearest to 2^n / (2 pi), the estimate   *)
(* converges monotonically toward pi: for consecutive n in 2..12,          *)
(* |estimate(n+1) - pi| <= |estimate(n) - pi|.                             *)
(* The errors are compared through enclosures: a double lies between its   *)
(* value cut to FixScale-ths and the next such value, pi between PiLo and  *)
(* PiHi; all are brought to the denominator FixScale * PiLo[2] * PiHi[2].  *)
(***************************************************************************)
FixScale == Pow2(14)

\* the greatest integer not above f * FixScale, for a double 0 < f < 16
FixFloor(f) ==
    LET w == f.e + 15
    IN  IF w <= 0 THEN 0
        ELSE BitsToInt(SubSeq(f.s \o Rep(0, w), 1, w))

\* the least integer not below f * FixScale
FixCeil(f) == IF Len(f.s) > f.e + 15 THEN FixFloor(f) + 1 ELSE FixFloor(f)

ScaledPiLo == PiLo[1] * PiHi[2] * FixScale
ScaledPiHi == PiHi[1] * PiLo[2] * FixScale
ScaledLo(f) == FixFloor(f) * PiLo[2] * PiHi[2]
ScaledHi(f) == FixCeil(f) * PiLo[2] * PiHi[2]

Max2(a, b) == IF a >= b THEN a ELSE b

\* a lower and an upper bound of |f - pi|, scaled
AbsErrLo(f) == Max2(0, Max2(ScaledLo(f) - ScaledPiHi, ScaledPiLo - ScaledHi(f)))
AbsErrHi(f) == Max2(ScaledHi(f) - ScaledPiLo, ScaledPiHi - ScaledLo(f))

\* |f - pi| <= |g - pi|, decided by the enclosures
ErrNoGreater(f, g) == f = g \/ AbsErrHi(f) <= AbsErrLo(g)

\* C2: each estimate appended is no farther from pi than the one before it
C2_MonotoneConvergence ==
    noiseless =>
        \A i \in 1..(Len(pi_estimates) - 1) :
            /\ nqs[i + 1] = nqs[i] + 1
            /\ ErrNoGreater(pi_estimates[i + 1], pi_estimates[i])

\* all of n = 2..12 were estimated, the error shrinking at least once and
\* staying equal at least once
C2_Witness ==
    /\ noiseless
    /\ Len(pi_estimates) = 11
    /\ nqs[1] = 2 /\ nqs[11] = 12
    /\ AbsErrHi(pi_estimates[8]) < AbsErrLo(pi_estimates[7])
    /\ pi_estimates[6] = pi_estimates[5]

(***************************************************************************)
(* C10.  For each n in 2..12 the estimate of the noiseless measurement m_n *)
(* is the one recorded in the notebook output: 2, 4, 8/3, 16/5, 16/5,      *)
(* 16/5, 128/41, 256/81, 512/163, 512/163, 512/163.                        *)
(* The output holds the decimal writing of the returned doubles; a decimal *)
(* denotes a double when it lies between the midpoints around it.          *)
(***************************************************************************)
\* the estimates C10 lists, as numerator and denominator
C10_Listed ==
    << <<2, 1>>, <<4, 1>>, <<8, 3>>, <<16, 5>>, <<16, 5>>, <<16, 5>>,
       <<128, 41>>, <<256, 81>>, <<512, 163>>, <<512, 163>>, <<512, 163>> >>

\* the fraction bits of the binary number f >= 1, as limbs of thirteen bits
FracLimbs(f) ==
    LET fr == SubSeq(f.s, f.e + 2, Len(f.s))
        k  == (Len(fr) + 12) \div 13
        pd == fr \o Rep(0, 13 * k - Len(fr))
    IN  [i \in 1..k |-> BitsToInt(SubSeq(pd, 13 * (i - 1) + 1, 13 * i))]

RECURSIVE TimesTen(_)
\* ten times a fraction given by its limbs: <<carry, limbs>>, the carry
\* being the decimal digit that leaves the fraction
TimesTen(limbs) ==
    IF limbs = <<>> THEN <<0, <<>>>>
    ELSE LET rest == TimesTen(Tail(limbs))
             v    == 10 * Head(limbs) + rest[1]
         IN  <<v \div Pow2(13), <<v % Pow2(13)>> \o rest[2]>>

RECURSIVE FracDigits(_, _)
\* the first k decimal digits of a fraction given by its limbs
FracDigits(limbs, k) ==
    IF k = 0 THEN <<>>
    ELSE LET t == TimesTen(limbs)
         IN  <<t[1]>> \o FracDigits(t[2], k - 1)

\* the integer part and the first 20 decimals of the binary number f >= 1
DecimalOf(f) ==
    <<BitsToInt(SubSeq(f.s \o Rep(0, f.e + 1), 1, f.e + 1))>>
        \o FracDigits(FracLimbs(f), 20)

\* the decimal d = [int, frac] written out to 20 decimals
DecimalText(d) == <<d.int>> \o d.frac \o Rep(0, 20 - Len(d.frac))

\* the decimal d reads back as the double f: it lies strictly between the
\* midpoints around f
DecimalDenotes(d, f) ==
    /\ CmpBits(DecimalOf(MidBelow(f)), DecimalText(d)) < 0
    /\ CmpBits(DecimalText(d), DecimalOf(MidAbove(f))) < 0

\* C10: the i-th estimate appended under noiseless measurements is the
\* double of the i-th listed value, and the i-th recorded decimal denotes it
C10_RecordedEstimates ==
    noiseless =>
        \A i \in 1..Len(pi_estimates) :
            /\ nqs[i] = i + 1
            /\ IsNearestDouble(pi_estimates[i], C10_Listed[i][1], C10_Listed[i][2])
            /\ DecimalDenotes(RecordedOutput[i], pi_estimates[i])
            /\ i <= Len(stdout) => stdout[i] = <<nqs[i], pi_estimates[i]>>

\* the eleven estimates are appended and written; the third is no rational
\* of the list but the double next to 8/3
C10_Witness ==
    /\ noiseless
    /\ Len(pi_estimates) = 11
    /\ Len(stdout) = 11
    /\ ~FloatEqRat(pi_estimates[3], 8, 3)
    /\ pc = "end"

(***************************************************************************)
(* C3.  For every non-empty counts mapping get_pi_estimate selects a       *)
(* bit-string whose count is at least the count of every other bit-string, *)
(* reads it as an unsigned binary integer (leftmost character most         *)
(* significant) and divides by 2^n_qubits to obtain theta.                 *)
(***************************************************************************)
\* C3: the selected key is a key of the mapping of greatest count, m is
\* its binary value and theta is exactly m / 2^n
C3_MostFrequentAsFraction ==
    (fn_out # Pending /\ fn_counts # <<>>) =>
        /\ \E i \in 1..Len(fn_counts) :
               /\ fn_counts[i].key = fn_out.key
               /\ \A j \in 1..Len(fn_counts) : fn_counts[i].n >= fn_counts[j].n
        /\ fn_out.m = BinaryValue(fn_out.key)
        /\ IF fn_out.m = 0 THEN fn_out.theta = Zero
           ELSE FloatEqRat(fn_out.theta, fn_out.m, Pow2(fn_n))

\* a mapping of two strings whose second is the more frequent was processed
C3_Witness ==
    /\ fn_out # Pending
    /\ fn_n = 3
    /\ Len(fn_counts) = 2
    /\ fn_counts[2].n > fn_counts[1].n
    /\ fn_out.key = fn_counts[2].key
    /\ fn_out.key = <<"1", "0", "1">>
    /\ fn_out.m = 5

(***************************************************************************)
(* C4.  Execution is strictly sequential: within one call the steps are    *)
(* build circuit, transpile, assemble, submit, wait for the job, read the  *)
(* counts, compute the estimate; counts are never processed before the     *)
(* backend has returned a result; at most one job is outstanding, and the  *)
(* job for n+1 is submitted only after the estimate for n was appended.    *)
(***************************************************************************)
\* the steps of one iteration, in the order C4 gives them
C4_Order ==
    <<"new_circuit", "qpe_pre", "barrier1", "qft_dagger", "barrier2", "measure",
      "transpile", "assemble", "run", "monitor", "result",
      "max", "int", "theta", "return", "append", "show">>

C4_Position(stmt) == CHOOSE i \in 1..Len(C4_Order) : C4_Order[i] = stmt

C4_InOrder(stmt) == \E i \in 1..Len(C4_Order) : C4_Order[i] = stmt

C4_Running == {j \in 1..Len(jobs) : jobs[j].status = "RUNNING"}

\* in every state: at most one job outstanding; the counts are processed
\* only when the job of this call is DONE; no more jobs than estimates
\* appended plus the one of the call under way
C4_State ==
    /\ Cardinality(C4_Running) <= 1
    /\ pc \in {"max", "int", "theta", "return"} =>
           /\ jobs # <<>>
           /\ jobs[Len(jobs)].status = "DONE"
           /\ counts # <<>>
           /\ Len(jobs) = it
    /\ Len(jobs) <= Len(pi_estimates) + 1

\* in every step: a statement of the call is followed by the next one in
\* the order (or by the exception that ends the notebook), and a job is
\* submitted only when every earlier job's estimate has been appended
C4_Step ==
    /\ (pc' # pc /\ C4_InOrder(pc) /\ pc' # "raised") =>
           \/ pc = "show" /\ pc' = "for"
           \/ /\ C4_InOrder(pc')
              /\ C4_Position(pc') = C4_Position(pc) + 1
    /\ Len(jobs') > Len(jobs) =>
           /\ pc = "run"
           /\ C4_Running = {}
           /\ Len(pi_estimates) = Len(jobs)

\* C4: the notebook is strictly sequential
C4_Sequential == []C4_State /\ [][C4_Step]_vars

\* the job of the second iteration is DONE and its counts are being
\* processed, the first estimate appended
C4_Witness ==
    /\ Len(jobs) = 2
    /\ jobs[2].status = "DONE"
    /\ pc = "return"
    /\ Len(pi_estimates) = 1

(***************************************************************************)
(* C5.  Every failure of get_pi_estimate is an error the SDK raised: the   *)
(* notebook's own code raises no error for any counts mapping the backend  *)
(* can return, the all-zeros bit-string (m = 0) included.                  *)
(* The code contradicts this: for m = 0 the returned expression 1./(2*0.0) *)
(* raises ZeroDivisionError.                                               *)
(***************************************************************************)
\* C5 as stated: the only exception that ends the notebook is the SDK's
C5_OnlySdkErrors == err \in {"none", "sdk"}

(***************************************************************************)
(* C6.  In every get_pi_estimate(n) call the counts mapping processed has  *)
(* keys of length exactly n and non-negative integer values that sum to    *)
(* the shot count 10000; so 0 <= m <= 2^n - 1 and theta < 1.               *)
(***************************************************************************)
\* C6: the shape of the counts, the range of m and of theta, wherever the
\* call holds them
C6_CountsShape ==
    /\ counts # <<>> =>
           /\ \A i \in 1..Len(counts) :
                  /\ Len(counts[i].key) = n_qubits
                  /\ \A x \in 1..n_qubits : counts[i].key[x] \in {"0", "1"}
                  /\ counts[i].n \in Nat
           /\ SeqSum([i \in 1..Len(counts) |-> counts[i].n]) = 10000
    /\ max_counts_result.kind = "str" =>
           Len(max_counts_result.str) = n_qubits
    /\ max_counts_result.kind = "int" =>
           /\ 0 <= max_counts_result.int
           /\ max_counts_result.int <= Pow2(n_qubits) - 1
    /\ pc = "return" =>
           \/ theta = Zero
           \/ CmpFloatRat(theta, 1, 1) < 0

\* a call for n = 3 holds a mapping of two strings and a nonzero theta
C6_Witness ==
    /\ pc = "return"
    /\ n_qubits = 3
    /\ Len(counts) = 2
    /\ max_counts_result.int = 7
    /\ theta # Zero

(***************************************************************************)
(* What a call appended to a circuit.                                      *)
(***************************************************************************)
\* the instructions `after` holds beyond those of `before`
Appended(before, after) ==
    SubSeq(after.data, Len(before.data) + 1, Len(after.data))

\* the call only appended: what was there before is still there, in place
OnlyAppended(before, after) ==
    /\ Len(after.data) >= Len(before.data)
    /\ SubSeq(after.data, 1, Len(before.data)) = before.data
    /\ after.nq = before.nq
    /\ after.nc = before.nc

CountKind(inss, kind) == Cardinality({i \in 1..Len(inss) : inss[i].g = kind})

Tri(j) == (j * (j + 1)) \div 2

(***************************************************************************)
(* C7.  qft_dagger(circ, n) emits a swap of qubits i and n-1-i for         *)
(* i = 0..floor(n/2)-1 ascending; then for j = 0..n-1 ascending a          *)
(* controlled phase of angle -pi/2^(j-m), control m, target j, for         *)
(* m = 0..j-1 ascending, followed by one Hadamard on j.  In total          *)
(* floor(n/2) swaps, n(n-1)/2 controlled phases and n Hadamards, all on    *)
(* the first n qubits.                                                     *)
(***************************************************************************)
\* the p-th instruction of the sequence C7 describes: row j starts after
\* floor(n/2) swaps and Tri(j) instructions of the rows before it
C7_Expected(n, p) ==
    IF p <= n \div 2 THEN Swap(p - 1, n - 1 - (p - 1))
    ELSE LET r == p - (n \div 2) - 1
             j == CHOOSE x \in 0..(n - 1) : Tri(x) <= r /\ r < Tri(x + 1)
             m == r - Tri(j)
         IN  IF m < j
             THEN [g |-> "cp", angle |-> [num |-> "-pi", den |-> Pow2(j - m)],
                   q |-> <<m, j>>, c |-> <<>>]
             ELSE H(j)

\* C7: after qft_dagger(circ, n) the circuit holds what it held, followed by
\* exactly the described sequence, with the described totals, on qubits < n
C7_QftDaggerSequence ==
    g_called = "qft_dagger" =>
        LET app == Appended(g_a0, g_a)
        IN  /\ ~g_a.err
            /\ OnlyAppended(g_a0, g_a)
            /\ Len(app) = (g_n \div 2) + Tri(g_n)
            /\ \A p \in 1..Len(app) : app[p] = C7_Expected(g_n, p)
            /\ CountKind(app, "swap") = g_n \div 2
            /\ CountKind(app, "cp") = (g_n * (g_n - 1)) \div 2
            /\ CountKind(app, "h") = g_n
            /\ \A p \in 1..Len(app) : \A i \in 1..Len(app[p].q) :
                    app[p].q[i] \in 0..(g_n - 1)

\* qft_dagger has run with n = 5: two swaps, ten controlled phases
C7_Witness ==
    /\ g_called = "qft_dagger"
    /\ g_n = 5
    /\ CountKind(Appended(g_a0, g_a), "swap") = 2
    /\ CountKind(Appended(g_a0, g_a), "cp") = 10
    /\ g_a0.data # <<>>

(***************************************************************************)
(* C8.  qpe_pre(circ, n) applies a Hadamard to the qubits 0..n-1, one X to *)
(* the last qubit n, and then for k = 0..n-1 ascending exactly 2^k         *)
(* controlled phases of angle 1, control k, target n: 2^n - 1 in total.    *)
(***************************************************************************)
\* the p-th instruction of the sequence C8 describes: the phases of k start
\* after n Hadamards, the X and 2^k - 1 phases of the qubits before k
C8_Expected(n, p) ==
    IF p <= n THEN H(p - 1)
    ELSE IF p = n + 1 THEN X(n)
    ELSE LET r == p - n - 2
             k == CHOOSE x \in 0..(n - 1) :
                      Pow2(x) - 1 <= r /\ r < Pow2(x + 1) - 1
         IN  [g |-> "cp", angle |-> [num |-> "1", den |-> 1],
              q |-> <<k, n>>, c |-> <<>>]

\* C8: after qpe_pre(circ, n) the circuit holds what it held, followed by
\* exactly the described sequence
C8_QpePreSequence ==
    g_called = "qpe_pre" =>
        LET app == Appended(g_a0, g_a)
        IN  /\ ~g_a.err
            /\ OnlyAppended(g_a0, g_a)
            /\ Len(app) = g_n + 1 + (Pow2(g_n) - 1)
            /\ \A p \in 1..Len(app) : app[p] = C8_Expected(g_n, p)
            /\ CountKind(app, "h") = g_n
            /\ CountKind(app, "x") = 1
            /\ CountKind(app, "cp") = Pow2(g_n) - 1
            /\ \A k \in 0..(g_n - 1) :
                   Cardinality({p \in 1..Len(app) :
                       app[p].g = "cp" /\ app[p].q = <<k, g_n>>}) = Pow2(k)

\* qpe_pre has run with n = 4: fifteen controlled phases, eight from qubit 3
C8_Witness ==
    /\ g_called = "qpe_pre"
    /\ g_n = 4
    /\ CountKind(Appended(g_a0, g_a), "cp") = 15
    /\ Appended(g_a0, g_a)[Len(Appended(g_a0, g_a))].q = <<3, 4>>

(***************************************************************************)
(* C9.  The sequences qft_dagger and qpe_pre emit depend on the qubit      *)
(* count alone: called with the same n_qubits on two circuits in different *)
(* prior states, they append identical sequences of (gate kind, angle,     *)
(* qubit indices).                                                         *)
(***************************************************************************)
\* C9: the two circuits, different before the call, were appended the same
C9_SameSequence ==
    g_called # "none" =>
        /\ g_a0 # g_b0
        /\ ~g_a.err /\ ~g_b.err
        /\ OnlyAppended(g_a0, g_a)
        /\ OnlyAppended(g_b0, g_b)
        /\ Appended(g_a0, g_a) = Appended(g_b0, g_b)

\* a helper has run on two circuits of different size and prior content
C9_Witness ==
    /\ g_called = "qft_dagger"
    /\ g_n >= 2
    /\ g_a0.nq # g_b0.nq
    /\ g_a0.data # g_b0.data
    /\ Len(Appended(g_a0, g_a)) > 0

(***************************************************************************)
(* C11.  The notebook authors no timeout or cancellation.  While the job   *)
(* submitted is in no final state, run_job stays at job_monitor, nothing   *)
(* is returned and no estimate is appended, and the notebook never changes *)
(* the status of a job.  If no SDK call raises and every job submitted     *)
(* eventually ends DONE with a most frequent measurement m >= 1, the       *)
(* driver loop eventually ends with one estimate for each element of nqs   *)
(* (11 of them for nqs = 2..12).                                           *)
(***************************************************************************)
\* the job run_job has submitted is in no final state
C11_JobRunning == job # 0 /\ jobs[job].status = "RUNNING"

\* the job run_job has submitted ended DONE and measured m >= 1 most often
C11_JobDone ==
    /\ job # 0
    /\ jobs[job].status = "DONE"
    /\ result # <<>>
    /\ IntBase2(MaxCountsKey(result)) >= 1

\* a step taken while the job is running leaves the notebook waiting
C11_Waits ==
    C11_JobRunning =>
        /\ pc = "monitor" /\ pc' = "monitor"
        /\ UNCHANGED <<pi_estimates, thisnq_pi_estimate, counts, it, stdout>>
        /\ job' = job
        /\ jobs'[job].status \in {"RUNNING", "DONE", "ERROR"}

\* the status of a job changes only while the notebook stands still
C11_NoCancel ==
    (\E j \in 1..Len(jobs) : jobs'[j].status # jobs[j].status) =>
        UNCHANGED <<pc, globalVars, loopVars, callVars, runVars>>

C11_Complete == pc = "end" /\ Len(pi_estimates) = Len(nqs)

C11_NoTimeout ==
    /\ [][C11_Waits /\ C11_NoCancel]_vars
    /\ ([](C11_JobRunning => <>C11_JobDone) /\ [](err # "sdk"))
           => <>C11_Complete

\* the loop over nqs = 2..12 has ended with 11 estimates, each from a job
\* that ended DONE
C11_Witness ==
    /\ pc = "end"
    /\ Len(nqs) = 11
    /\ Len(pi_estimates) = 11
    /\ Len(jobs) = 11
    /\ \A j \in 1..Len(jobs) : jobs[j].status = "DONE"

(***************************************************************************)
(* C12.  All state of an estimation is local to one get_pi_estimate call:  *)
(* the call starts with none of its locals set, builds its circuit from an *)
(* empty one, leaves nqs, pi_estimates and the simulator handle unchanged, *)
(* and what it returns (or raises) is the function PiEstimate of its own   *)
(* n_qubits and counts alone, whatever calls came before.                  *)
(***************************************************************************)
\* the statements of get_pi_estimate and of the run_job it calls
C12_InCall ==
    pc \in {"new_circuit", "qpe_pre", "barrier1", "qft_dagger", "barrier2",
            "measure", "transpile", "assemble", "run", "monitor", "result",
            "max", "int", "theta", "return"}

\* nothing of an earlier call is there when a call starts or has returned
C12_NothingCarried ==
    pc \in {"for", "new_circuit", "append", "show", "plot", "end"} =>
        /\ circ = NoCircuit
        /\ counts = <<>>
        /\ max_counts_result = Unset
        /\ theta = Zero
        /\ t_circ = NoCircuit /\ qobj = NoQobj /\ job = 0

\* the circuit the gates are appended to starts empty
C12_Fresh ==
    pc = "qpe_pre" =>
        /\ circ.data = <<>>
        /\ circ.nq = n_qubits + 1
        /\ circ.nc = n_qubits
        /\ n_qubits = nqs[it]

C12_Step ==
    C12_InCall =>
        /\ UNCHANGED <<nqs, pi_estimates, simulator>>
        /\ pc = "return" /\ pc' = "append" =>
              /\ PiEstimate(counts, n_qubits).raised = "none"
              /\ thisnq_pi_estimate' = PiEstimate(counts, n_qubits).val
        /\ pc = "return" /\ pc' = "raised" =>
              /\ PiEstimate(counts, n_qubits).raised = err'

C12_LocalState ==
    /\ [](C12_NothingCarried /\ C12_Fresh)
    /\ [][C12_Step]_vars

\* a call that was preceded by two others has returned its value
C12_Witness ==
    /\ it = 3
    /\ pc = "append"
    /\ Len(pi_estimates) = 2
    /\ Len(jobs) = 3

(***************************************************************************)
(* C13.  get_pi_estimate(n) assembles its circuit in a fixed order: n + 1  *)
(* qubits and n classical bits; the gates of qpe_pre; a barrier; the gates *)
(* of qft_dagger; a barrier; the measurement of qubit i into classical bit *)
(* i for i = 0..n-1.  Nothing follows the measurements, every qft_dagger   *)
(* gate comes after every qpe_pre gate, qubit n is never measured, and     *)
(* during the call the circuit only grows at its end.                      *)
(***************************************************************************)
\* the circuit is complete: the statements from run_job's call to the return
C13_Built ==
    pc \in {"transpile", "assemble", "run", "monitor", "result", "max", "int",
            "theta", "return"}

\* the places of the barriers in a sequence of instructions
C13_Barriers(d) == {k \in 1..Len(d) : d[k].g = "barrier"}

C13_Order ==
    C13_Built =>
        LET d  == circ.data
            n  == n_qubits
            P  == qpe_pre(QuantumCircuit(n + 1, n), n).data
            Q  == qft_dagger(QuantumCircuit(n + 1, n), n).data
            bs == C13_Barriers(d)
            b1 == Len(P) + 1
            b2 == Len(P) + Len(Q) + 2
        IN  /\ circ.nq = n + 1 /\ circ.nc = n /\ ~circ.err
            /\ Len(d) = Len(P) + Len(Q) + n + 2
            /\ bs = {b1, b2}
            /\ \A k \in bs : d[k].q = [i \in 1..(n + 1) |-> i - 1]
            /\ SubSeq(d, 1, b1 - 1) = P
            /\ SubSeq(d, b1 + 1, b2 - 1) = Q
            /\ \A k \in 1..(b1 - 1) : d[k].g \in {"h", "x", "cp"}
            /\ \A k \in (b1 + 1)..(b2 - 1) : d[k].g \in {"swap", "cp", "h"}
            /\ \A i \in 1..n :
                   d[b2 + i] = [g |-> "measure", angle |-> NoAngle,
                                q |-> <<i - 1>>, c |-> <<i - 1>>]
            /\ \A k \in 1..Len(d) :
                   d[k].g = "measure" => k > b2 /\ d[k].q # <<n>>

\* inside the call a step keeps what the circuit holds and appends to it
C13_Grows ==
    (pc \in {"qpe_pre", "barrier1", "qft_dagger", "barrier2", "measure"}
        /\ ~circ'.err) =>
        /\ Len(circ'.data) > Len(circ.data)
        /\ SubSeq(circ'.data, 1, Len(circ.data)) = circ.data

C13_AssemblyOrder == []C13_Order /\ [][C13_Grows]_vars

\* the circuit of three counting qubits is complete: 11 gates of qpe_pre,
\* 7 of qft_dagger, 2 barriers and 3 measurements
C13_Witness ==
    /\ pc = "transpile"
    /\ n_qubits = 3
    /\ Len(circ.data) = 23
    /\ circ.data[12].g = "barrier"
    /\ circ.data[23].g = "measure"

(***************************************************************************)
(* C14.  For every n >= 1, on a circuit holding the qubits 0..n, every     *)
(* gate that qpe_pre and qft_dagger emit names qubits within 0..n and is   *)
(* accepted by the circuit; every two-qubit gate (swap, controlled phase)  *)
(* names two distinct qubits; every controlled phase of qft_dagger has     *)
(* control < target and the angle -pi/2^(target - control) with the        *)
(* exponent in 1..n-1; and qft_dagger applies no gate to qubit n.          *)
(***************************************************************************)
\* the gates the call appended to the circuit `after`
C14_Indices(before, after) ==
    LET app == Appended(before, after)
    IN  /\ ~after.err
        /\ Len(app) > 0
        /\ \A p \in 1..Len(app) :
              /\ app[p].g \in {"swap", "cp", "h", "x"}
              /\ \A k \in 1..Len(app[p].q) : app[p].q[k] \in 0..g_n
              /\ app[p].g \in {"swap", "cp"} =>
                    Len(app[p].q) = 2 /\ app[p].q[1] # app[p].q[2]
              /\ app[p].g \in {"h", "x"} => Len(app[p].q) = 1

\* what holds of qft_dagger's gates only
C14_Qft(before, after) ==
    LET app == Appended(before, after)
    IN  \A p \in 1..Len(app) :
            /\ \A k \in 1..Len(app[p].q) : app[p].q[k] # g_n
            /\ app[p].g = "cp" =>
                  /\ app[p].q[1] < app[p].q[2]
                  /\ app[p].q[2] - app[p].q[1] \in 1..(g_n - 1)
                  /\ app[p].angle = NegPiOver(app[p].q[2] - app[p].q[1])

C14_QubitIndices ==
    g_called # "none" =>
        /\ C14_Indices(g_a0, g_a)
        /\ C14_Indices(g_b0, g_b)
        /\ g_called = "qft_dagger" =>
              C14_Qft(g_a0, g_a) /\ C14_Qft(g_b0, g_b)

\* qft_dagger has run with n = 4 on a circuit of the qubits 0..4 and has
\* emitted the controlled phase of exponent 3, from qubit 0 onto qubit 3
C14_Witness ==
    /\ g_called = "qft_dagger"
    /\ g_n = 4
    /\ g_a.nq = 5
    /\ \E p \in 1..Len(g_a.data) :
          g_a.data[p] = CP(NegPiOver(3), 0, 3)

(***************************************************************************)
(* C15.  The swap stage of qft_dagger reverses the order of the first n    *)
(* qubits: composed, its swaps move what is at position i to n-1-i for     *)
(* every i in 0..n-1; each qubit takes part in at most one swap; for odd n *)
(* the middle qubit takes part in none; applied twice, the stage restores  *)
(* the original order.                                                     *)
(***************************************************************************)
\* the swaps among the gates a call appended, in order
C15_Swaps(before, after) ==
    SelectSeq(Appended(before, after), LAMBDA ins : ins.g = "swap")

RECURSIVE C15_Apply(_, _)
\* what the positions 0..n-1 hold after the swaps, when position i held
\* held[i + 1] before: a swap exchanges what its two qubits hold
C15_Apply(held, swaps) ==
    IF swaps = <<>> THEN held
    ELSE LET a == Head(swaps).q[1] + 1
             b == Head(swaps).q[2] + 1
         IN  C15_Apply([held EXCEPT ![a] = held[b], ![b] = held[a]],
                       Tail(swaps))

\* position i holds qubit i
C15_Identity(n) == [i \in 1..n |-> i - 1]

C15_Reverses(before, after) ==
    LET sw   == C15_Swaps(before, after)
        once == C15_Apply(C15_Identity(g_n), sw)
    IN  /\ ~after.err
        /\ Len(sw) = g_n \div 2
        /\ \A i \in 0..(g_n - 1) : once[(g_n - 1 - i) + 1] = i
        /\ \A i \in 0..(g_n - 1) :
               Cardinality({p \in 1..Len(sw) :
                               \E k \in 1..2 : sw[p].q[k] = i}) <= 1
        /\ g_n % 2 = 1 =>
               \A p \in 1..Len(sw) : \A k \in 1..2 :
                   sw[p].q[k] # (g_n - 1) \div 2
        /\ C15_Apply(once, sw) = C15_Identity(g_n)

C15_SwapsReverse ==
    g_called = "qft_dagger" =>
        C15_Reverses(g_a0, g_a) /\ C15_Reverses(g_b0, g_b)

\* qft_dagger has run with n = 5: two swaps, qubit 2 in the middle
C15_Witness ==
    /\ g_called = "qft_dagger"
    /\ g_n = 5
    /\ C15_Swaps(g_a0, g_a) = <<Swap(0, 4), Swap(1, 3)>>
    /\ C15_Apply(C15_Identity(5), C15_Swaps(g_a0, g_a)) = <<4, 3, 2, 1, 0>>

(***************************************************************************)
(* C16.  The estimate depends only on the ratio m / 2^n: for n >= 1 and    *)
(* 1 <= m <= 2^n - 1 the estimate for (n + 1, 2m) equals the estimate for  *)
(* (n, m); and for fixed n the estimate is strictly decreasing in m, so    *)
(* distinct measured integers give distinct estimates.                     *)
(***************************************************************************)
\* what get_pi_estimate computes when the most frequent key of n bits
\* writes the integer m
C16_Estimate(n, m) ==
    PiEstimate(<<[key |-> BitString(m, n), n |-> Shots]>>, n).val

\* f < g for two doubles above zero
C16_Less(f, g) ==
    \/ f.e < g.e
    \/ /\ f.e = g.e
       /\ CmpBits(f.s \o Rep(0, MantBits - Len(f.s)),
                  g.s \o Rep(0, MantBits - Len(g.s))) < 0

C16_RatioOnly ==
    (fn_out # Pending /\ fn_out.raised = "none") =>
        /\ fn_out.m \in 1..(Pow2(fn_n) - 1)
        /\ C16_Estimate(fn_n, fn_out.m) = fn_out.val
        /\ C16_Estimate(fn_n + 1, 2 * fn_out.m) = fn_out.val
        /\ fn_out.m + 1 <= Pow2(fn_n) - 1 =>
              C16_Less(C16_Estimate(fn_n, fn_out.m + 1), fn_out.val)

\* the estimate of (4, 3) has been returned; (5, 6) gives the same double
\* and (4, 4) a smaller one
C16_Witness ==
    /\ fn_out # Pending
    /\ fn_out.raised = "none"
    /\ fn_n = 4
    /\ fn_out.m = 3
    /\ C16_Estimate(5, 6) = fn_out.val
    /\ C16_Less(C16_Estimate(4, 4), fn_out.val)

(***************************************************************************)
(* C17.  For every n >= 1 and every measured integer m with                *)
(* 1 <= m <= 2^n - 1 the estimate returned lies in 1/2 < estimate <=       *)
(* 2^(n-1), and it is 2^(n-1) exactly when m = 1; no measurement of n bits *)
(* gives an estimate of 1/2 or less.                                       *)
(***************************************************************************)
C17_Range ==
    (fn_out # Pending /\ fn_out.raised = "none") =>
        /\ fn_out.m = BinaryValue(MaxCountsKey(fn_counts))
        /\ fn_out.m \in 1..(Pow2(fn_n) - 1)
        /\ fn_out.val # Zero
        /\ CmpFloatRat(fn_out.val, 1, 2) = 1
        /\ CmpFloatRat(fn_out.val, Pow2(fn_n - 1), 1) <= 0
        /\ CmpFloatRat(fn_out.val, Pow2(fn_n - 1), 1) = 0 <=> fn_out.m = 1

\* the low end of the range: the estimate of m = 2^n - 1 for n = 12
C17_Witness ==
    /\ fn_out # Pending /\ fn_out.raised = "none"
    /\ fn_n = 12
    /\ fn_out.m = 4095
    /\ CmpFloatRat(fn_out.val, 1, 2) = 1
    /\ CmpFloatRat(fn_out.val, 501, 1000) = -1

(***************************************************************************)
(* C18.  The driver loop visits the elements of nqs (2, 3, ..., 12) in     *)
(* ascending order, once each; after k completed iterations pi_estimates   *)
(* has exactly k entries and entry i is the estimate computed for nqs[i];  *)
(* entries are never modified or removed; when the loop has ended          *)
(* pi_estimates is as long as nqs (11), as the plot cell needs.            *)
(***************************************************************************)
\* the number of iterations completed
C18_Completed ==
    IF pc \in {"for", "plot", "end"} THEN it
    ELSE IF it = 0 THEN 0 ELSE it - 1

C18_State ==
    /\ nqs = [i \in 1..Len(nqs) |-> i + 1]
    /\ noiseless => Len(nqs) = 11 /\ nqs[11] = 12
    /\ it \in 0..Len(nqs)
    /\ it > 0 => nq = nqs[it]
    /\ pc \in {"for", "plot", "end"} => Len(pi_estimates) = C18_Completed
    /\ Len(pi_estimates) \in {C18_Completed, C18_Completed + 1}
    /\ Len(stdout) = C18_Completed
    /\ \A i \in 1..Len(stdout) : stdout[i] = <<nqs[i], pi_estimates[i]>>
    /\ noiseless =>
          \A i \in 1..Len(pi_estimates) :
              IsNearestDouble(pi_estimates[i], Pow2(nqs[i] - 1), NearestM(nqs[i]))
    /\ pc \in {"plot", "end"} => Len(pi_estimates) = Len(nqs)
    /\ pc = "end" => plotted = <<nqs, pi_estimates>>

C18_Step ==
    /\ nqs' = nqs
    /\ it' \in {it, it + 1}
    /\ it' = it + 1 => pc = "for" /\ nq' = nqs[it + 1] /\ n_qubits' = nq'
    /\ Len(pi_estimates') >= Len(pi_estimates)
    /\ SubSeq(pi_estimates', 1, Len(pi_estimates)) = pi_estimates
    /\ pi_estimates' # pi_estimates =>
          /\ pi_estimates' = Append(pi_estimates, thisnq_pi_estimate)
          /\ Len(pi_estimates') = it
    /\ thisnq_pi_estimate' # thisnq_pi_estimate =>
          /\ pc = "return"
          /\ thisnq_pi_estimate' = PiEstimate(counts, nqs[it]).val

C18_LoopInvariant == []C18_State /\ [][C18_Step]_vars

\* the loop has run over 2..12 and the plot cell has drawn the 11 estimates
C18_Witness ==
    /\ pc = "end"
    /\ Len(nqs) = 11
    /\ Len(pi_estimates) = 11
    /\ it = 11
    /\ plotted = <<nqs, pi_estimates>>

====
